---- MODULE Spec2Model ----
(***************************************************************************)
(* Model of the 0the Othello engine (src/src/lib.rs, src/src/player.rs):   *)
(* the Board legality / outflank scans, the Move codec and the Game::play  *)
(* turn loop with its record / replay mechanism.                           *)
(*                                                                         *)
(* Representation.  Board.squares is a function 0..63 -> Disc.  A u64      *)
(* bitfield is the set of its set bit positions (a subset of 0..63).  An   *)
(* Option<T> is a record [some |-> BOOLEAN, ...].  A &str is a sequence of *)
(* Unicode code points.                                                    *)
(***************************************************************************)
EXTENDS Integers, Sequences, FiniteSets, TLC

\* ------------------------------------------------------------------ bounds
\* accepted moves explored in one game (guards Think)
MaxMoves == 2
\* rejected (illegal) moves explored in one game
MaxRejected == 1
\* length of the strings handed to Move::from_algebric
MaxLen == 2
\* chars of a notation replaced before it is given to Board::from_str
MaxEdits == 1

\* --------------------------------------------------------------- constants
\* side of the board: (0..8) ranges of lib.rs
Side == 8
\* number of squares: [Disc; 64]
Squares == 64
\* largest value of a u8 counter
U8Max == 255

Disc == {"White", "Black", "Empty"}
Idx == 0 .. (Squares - 1)
Coord == 0 .. (Side - 1)

\* impl Not for Disc
Not(d) ==
  CASE d = "White" -> "Black"
    [] d = "Black" -> "White"
    [] OTHER -> "Empty"

DIRECTIONS ==
  << <<-1, -1>>, <<0, -1>>, <<1, -1>>, <<-1, 0>>,
     <<1, 0>>, <<-1, 1>>, <<0, 1>>, <<1, 1>> >>

Dirs == 1 .. Len(DIRECTIONS)

InBoard(nx, ny) == nx \in Coord /\ ny \in Coord

\* Board::new with the two colors of the centre squares exchanged
Board_new_swapped ==
  [i \in Idx |->
     CASE i = 27 -> "Black"
       [] i = 28 -> "White"
       [] i = 35 -> "White"
       [] i = 36 -> "Black"
       [] OTHER -> "Empty"]

\* Board::new: the starting layout
Board_new ==
  [i \in Idx |->
     CASE i = 27 -> "White"
       [] i = 28 -> "Black"
       [] i = 35 -> "Black"
       [] i = 36 -> "White"
       [] OTHER -> "Empty"]

\* Move { col, row }
Move(c, r) == [col |-> c, row |-> r]

\* Move::into_idx
into_idx(m) == m.row * 8 + m.col

\* Move::from_idx with row and col exchanged
from_idx_transposed(i) == [row |-> i % 8, col |-> i \div 8]

\* Move::from_idx
from_idx(i) == [row |-> i \div 8, col |-> i % 8]

\* Board::change_disc that leaves the square as it is
change_disc_none(sq, m, disc) == sq

\* Board::change_disc (col < 8 and row < 8 are asserted by the caller's guard)
change_disc(sq, m, disc) == [sq EXCEPT ![m.row * 8 + m.col] = disc]

\* the loop of Board::legal_moves without the test of `captured`
RECURSIVE LegalScan_no_capture(_, _, _, _, _, _, _)
LegalScan_no_capture(sq, player, nx, ny, dx, dy, captured) ==
  IF ~InBoard(nx, ny) THEN FALSE
  ELSE LET n_idx == ny * 8 + nx IN
       IF sq[n_idx] = "Empty" THEN FALSE
       ELSE IF sq[n_idx] = player THEN TRUE
       ELSE LegalScan_no_capture(sq, player, nx + dx, ny + dy, dx, dy, TRUE)

\* the while loop of Board::legal_moves for one direction: TRUE iff the loop
\* executes `bitfield |= 1 << idx`
RECURSIVE LegalScan(_, _, _, _, _, _, _)
LegalScan(sq, player, nx, ny, dx, dy, captured) ==
  IF ~InBoard(nx, ny) THEN FALSE
  ELSE LET n_idx == ny * 8 + nx IN
       IF sq[n_idx] = "Empty" THEN FALSE
       ELSE IF sq[n_idx] = player THEN captured
       ELSE LegalScan(sq, player, nx + dx, ny + dy, dx, dy, TRUE)

\* Board::legal_moves with the test of the player taken out
legal_moves_never_panics(player) == FALSE

\* Board::legal_moves: `if player == Disc::Empty { panic!(..) }`
legal_moves_panics(player) == player = "Empty"

\* Board::legal_moves past the test of the player
Board_legal_moves(sq, player) ==
  {idx \in Idx :
     /\ sq[idx] = "Empty"
     /\ \E d \in Dirs :
          LegalScan(sq, player, (idx % 8) + DIRECTIONS[d][1],
                    (idx \div 8) + DIRECTIONS[d][2],
                    DIRECTIONS[d][1], DIRECTIONS[d][2], FALSE)}

\* the while loop of Board::move_outflanks for one direction: the bits the
\* loop adds to bitfield
RECURSIVE OutflankScan(_, _, _, _, _, _, _)
OutflankScan(sq, player, nx, ny, dx, dy, may_outflank) ==
  IF ~InBoard(nx, ny) THEN {}
  ELSE LET n_idx == ny * 8 + nx IN
       IF sq[n_idx] = "Empty" THEN {}
       ELSE IF sq[n_idx] = player /\ may_outflank # {} THEN may_outflank
       ELSE OutflankScan(sq, player, nx + dx, ny + dy, dx, dy,
                         may_outflank \cup {n_idx})

\* Board::move_outflanks: `if player == Disc::Empty { panic!(..) }`
move_outflanks_panics(player) == player = "Empty"

\* Board::move_outflanks that outflanks nothing
move_outflanks_none(sq, player, m) == {}

\* Board::move_outflanks past the test of the player
move_outflanks(sq, player, m) ==
  UNION {OutflankScan(sq, player, m.col + DIRECTIONS[d][1],
                      m.row + DIRECTIONS[d][2],
                      DIRECTIONS[d][1], DIRECTIONS[d][2], {}) : d \in Dirs}

\* Board::put_discs that writes nothing
put_discs_none(sq, bitfield, player) == sq

\* Board::put_discs
put_discs(sq, bitfield, player) ==
  [i \in Idx |-> IF i \in bitfield THEN player ELSE sq[i]]

\* the counter of a loop that skips the first square
Counter_skips_first(sq, disc) ==
  Cardinality({i \in Idx \ {0} : sq[i] = disc})

\* a u8 counter of the loop `for disc in self.squares` of Board::scores: it is
\* incremented once for every square holding `disc`
Counter(sq, disc) == Cardinality({i \in Idx : sq[i] = disc})

\* Board::scores: (white, black, empty) as u8; ovf: an increment went past
\* the largest u8 (a panic in a debug build, a wrap in a release build)
scores(sq) ==
  LET white == Counter(sq, "White")
      black == Counter(sq, "Black")
      empty == Counter(sq, "Empty")
  IN [white |-> white % (U8Max + 1),
      black |-> black % (U8Max + 1),
      empty |-> empty % (U8Max + 1),
      ovf |-> white > U8Max \/ black > U8Max \/ empty > U8Max]

\* ------------------------------------------------------------ text codecs
\* the characters matched by Board::from_str
DASH == 45
CHO == 79
CHX == 88
\* the byte ranges tested by algebric2xy: b'a'..=b'h' and b'1'..=b'8'
LowerA == 97
LowerH == 104
Digit1 == 49
Digit8 == 56
\* length of the Othello notation tested by Board::from_str
NotationLen == 64

\* number of bytes of the UTF-8 encoding of one char (str::len counts bytes)
Utf8Len(c) ==
  IF c < 128 THEN 1 ELSE IF c < 2048 THEN 2 ELSE IF c < 65536 THEN 3 ELSE 4

\* the bytes of chars lo..hi of s
RECURSIVE BytesOf(_, _, _)
BytesOf(s, lo, hi) ==
  IF lo > hi THEN 0
  ELSE IF lo = hi THEN Utf8Len(s[lo])
  ELSE LET mid == (lo + hi) \div 2
       IN BytesOf(s, lo, mid) + BytesOf(s, mid + 1, hi)

\* str::len
StrLen(s) == BytesOf(s, 1, Len(s))

\* `c as u8` on a char: the low byte of the code point
AsU8(c) == c % (U8Max + 1)

InvalidAlgebric(pos) == [tag |-> "Err", err |-> "InvalidAlgebric", text |-> pos]

\* algebric2xy: Ok((col, row)), Err(InvalidAlgebric(pos)), or the panic of
\* Option::unwrap when pos.chars() yields fewer than two chars
algebric2xy(pos) ==
  IF StrLen(pos) # 2 THEN InvalidAlgebric(pos)
  ELSE IF Len(pos) < 2 THEN [tag |-> "Panic"]
  ELSE LET col == AsU8(pos[1])
           row == AsU8(pos[2])
       IN IF ~(col \in LowerA .. LowerH) \/ ~(row \in Digit1 .. Digit8)
          THEN InvalidAlgebric(pos)
          ELSE [tag |-> "Ok", col |-> col - LowerA, row |-> row - Digit1]

\* Move::from_algebric
from_algebric(pos) ==
  LET r == algebric2xy(pos) IN
  IF r.tag = "Ok" THEN [tag |-> "Ok", mov |-> Move(r.col, r.row)] ELSE r

\* the match of Board::from_str on one char
DiscOfChar(c) ==
  CASE c = CHO -> "White"
    [] c = CHX -> "Black"
    [] OTHER -> "Empty"

\* impl FromStr for Board: the char_indices loop returns at the first char
\* that is none of '-', 'O', 'X'; when there is none every char is one byte
\* long, so the byte offset of the k-th char, the square it sets, is k - 1
Board_from_str(s) ==
  LET bad == {k \in 1 .. Len(s) : s[k] \notin {DASH, CHO, CHX}}
      first == CHOOSE k \in bad : \A j \in bad : k <= j
  IN IF StrLen(s) # NotationLen
     THEN [tag |-> "Err", err |-> "InvalidLenghtOfNotation"]
     ELSE IF bad # {}
     THEN [tag |-> "Err", err |-> "InvalidCharInNotation", ch |-> s[first]]
     ELSE [tag |-> "Ok", squares |-> [i \in Idx |-> DiscOfChar(s[i + 1])]]

Rep(c, n) == [i \in 1 .. n |-> c]

Range(s) == {s[i] : i \in 1 .. Len(s)}

\* ------------------------------------------------- notations given to `import`
\* three positions with two empty squares left, reached by play from
\* Board::new, Black to move
NotationEnd2 ==
  << CHO, CHO, CHO, CHO, CHO, CHO, CHO, CHO,
     CHO, CHO, CHO, CHO, CHO, CHO, CHO, CHO,
     CHO, CHO, CHX, CHX, CHX, CHX, CHO, CHX,
     CHO, CHO, CHO, CHX, CHO, CHO, CHX, CHX,
     CHO, CHO, CHO, CHO, CHO, CHX, CHX, CHX,
     CHO, CHO, CHO, CHX, CHX, CHX, CHX, CHX,
     CHO, CHO, CHO, CHO, CHO, CHO, CHX, CHX,
     DASH, CHX, CHX, CHX, DASH, CHX, CHX, CHX >>

NotationEnd2b ==
  << DASH, CHO, CHO, CHO, CHO, CHO, CHO, CHO,
     CHO, CHO, CHO, CHX, CHX, CHO, CHO, CHO,
     CHX, CHO, CHO, CHX, CHO, CHO, CHO, CHO,
     CHX, CHO, CHO, CHO, CHX, CHX, CHO, CHX,
     CHO, CHO, CHO, CHX, CHO, CHO, CHX, CHX,
     CHO, CHO, CHO, CHX, CHO, CHX, CHO, CHX,
     CHO, CHO, CHO, CHX, CHX, CHO, CHO, CHX,
     CHO, DASH, CHX, CHX, CHX, CHX, CHX, CHX >>

NotationEnd2c ==
  << CHO, CHO, CHO, CHX, CHX, CHX, CHX, CHO,
     DASH, CHO, CHX, CHX, CHX, CHX, CHX, CHO,
     CHO, CHO, CHX, CHO, CHX, CHO, CHX, CHO,
     CHO, CHX, CHO, CHX, CHX, CHO, CHX, CHO,
     CHO, CHO, CHX, CHX, CHX, CHX, CHX, CHO,
     CHO, CHO, CHO, CHO, CHO, CHO, CHX, CHO,
     CHO, CHO, CHX, CHX, CHO, CHO, CHO, CHO,
     CHO, CHX, CHX, DASH, CHX, CHO, CHO, CHO >>

\* Black outflanks the only White disc
NotationWipe == <<DASH, CHO, CHX>> \o Rep(DASH, 61)

\* Black cannot move, White can
NotationForfeit == Rep(DASH, 6) \o <<CHX, CHO>> \o Rep(DASH, 56)

\* nobody can move: one disc each / two White discs against one Black
NotationDraw == <<CHX>> \o Rep(DASH, 62) \o <<CHO>>

NotationWhite == <<CHX>> \o Rep(DASH, 6) \o <<CHO>> \o Rep(DASH, 55) \o <<CHO>>

Notations ==
  {NotationEnd2, NotationEnd2b, NotationEnd2c, NotationWipe, NotationForfeit,
   NotationDraw, NotationWhite}

\* -------------------------------------------------------------- game state
VARIABLES
  board,                \* Game.board.squares
  turn,                 \* Game.turn
  current_legal_moves,  \* Game.current_legal_moves: Option<u64>
  state,                \* Game.state
  settings,             \* Game.settings: game_record, saves_game_dir.is_some()
  save,                 \* Game.save: Option<GameSave>
  players,              \* kind and name of black_player / white_player
  pc,                   \* position in Game::play
  previous_err,         \* previous_err of the acquisition loop of Game::play
  ret,                  \* how Game::play / GameSave::replay ended
  phase,                \* start_game: play, post_play; then replay_game
  disk,                 \* the save written by post_play: Option<GameSave>
  move_idx,             \* the cursor shared by the two ReplayPlayers
  ev,                   \* history: the last step taken and the Game before it
  nacc,                 \* history: accepted moves of this game
  nrej,                 \* history: rejected moves of this game
  alg_in,               \* the &str given to Move::from_algebric
  alg_out,              \* its result
  notation,             \* the &str given to Board::from_str
  out,                  \* the result of a call of a Board function
  mv,                   \* a Move given to into_idx / returned by from_idx
  ix                    \* an index given to from_idx / returned by into_idx

vars ==
  << board, turn, current_legal_moves, state, settings, save, players, pc,
     previous_err, ret, phase, disk, move_idx, ev, nacc, nrej, alg_in,
     alg_out, notation, out, mv, ix >>

gameVars == << board, turn, current_legal_moves, state >>
algVars == << alg_in, alg_out, notation, out, mv, ix >>

None == [some |-> FALSE, val |-> {}]
Some(v) == [some |-> TRUE, val |-> v]

NoName == [some |-> FALSE, val |-> ""]
NoSave == [some |-> FALSE, moves |-> <<>>, end_state |-> [tag |-> "Playing"],
           black_name |-> NoName, white_name |-> NoName]

Playing == [tag |-> "Playing"]
TurnForfeited == [tag |-> "TurnForfeited"]
Draw == [tag |-> "Draw"]

\* Player::force_name
force_name(pl, color) ==
  IF pl[color].name.some THEN pl[color].name.val ELSE color

\* GameSave::new
GameSave_new(pl) ==
  [some |-> TRUE, moves |-> <<>>, end_state |-> Playing,
   black_name |-> pl["Black"].name, white_name |-> pl["White"].name]

\* the Game as one value: what a step may or may not modify
Snapshot ==
  [board |-> board, turn |-> turn, state |-> state,
   current_legal_moves |-> current_legal_moves, moves |-> save.moves]

Event(kind, m) == [kind |-> kind, mov |-> m, color |-> turn, pre |-> Snapshot]

\* the players of start_game: HumanPlayer::new(name), name kept when not empty
HumanPlayers ==
  [c \in {"Black", "White"} |->
     [kind |-> "Human",
      name |-> IF c = "Black" THEN [some |-> TRUE, val |-> "Ann"] ELSE NoName]]

\* the boards start_game hands to Game::with_board / Game::new
StartBoards ==
  {Board_new} \cup {Board_from_str(n).squares : n \in Notations}

\* Game::with_board
Init ==
  /\ board \in StartBoards
  /\ turn = "Black"
  /\ current_legal_moves = None
  /\ state = Playing
  /\ settings \in [game_record : BOOLEAN, saves_game_dir : BOOLEAN]
  /\ players = HumanPlayers
  /\ save = IF settings.saves_game_dir /\ settings.game_record
            THEN GameSave_new(players) ELSE NoSave
  /\ pc = "top"
  /\ previous_err = "None"
  /\ ret = "None"
  /\ phase = "play"
  /\ disk = NoSave
  /\ move_idx = 0
  /\ ev = [kind |-> "init", mov |-> Move(0, 0), color |-> "Black",
           pre |-> [board |-> board, turn |-> turn, state |-> state,
                    current_legal_moves |-> current_legal_moves,
                    moves |-> <<>>]]
  /\ nacc = 0
  /\ nrej = 0
  /\ alg_in = <<>>
  /\ alg_out = [tag |-> "None"]
  /\ notation = <<>>
  /\ out = [tag |-> "None"]
  /\ mv = Move(0, 0)
  /\ ix = 0

Running == phase \in {"play", "replay"} /\ ret = "None"

\* the terminal State with the empty squares credited to nobody
EndState_no_empty(sq, pl) ==
  LET s == scores(sq)
      max == IF s.white > s.black THEN s.white ELSE s.black
      min == IF s.white < s.black THEN s.white ELSE s.black
      winner_color == IF s.white > s.black THEN "White" ELSE "Black"
  IN IF s.white = s.black THEN Draw
     ELSE [tag |-> "Winned",
           winner_color |-> winner_color,
           winner_name |-> force_name(pl, winner_color),
           winner_score |-> max,
           loser_score |-> min]

\* the terminal State computed by Game::legal_moves when nobody can move
EndState(sq, pl) ==
  LET s == scores(sq)
      max == IF s.white > s.black THEN s.white ELSE s.black
      min == IF s.white < s.black THEN s.white ELSE s.black
      winner_color == IF s.white > s.black THEN "White" ELSE "Black"
  IN IF s.white = s.black THEN Draw
     ELSE [tag |-> "Winned",
           winner_color |-> winner_color,
           winner_name |-> force_name(pl, winner_color),
           winner_score |-> (max + s.empty) % (U8Max + 1),
           loser_score |-> min]

\* Game::legal_moves without the test of the opponent's moves
StateAfterLegalMoves_no_forfeit(sq, t, st, pl) ==
  IF Board_legal_moves(sq, t) # {} THEN st ELSE EndState(sq, pl)

\* the State left by Game::legal_moves
StateAfterLegalMoves(sq, t, st, pl) ==
  IF Board_legal_moves(sq, t) # {} THEN st
  ELSE IF Board_legal_moves(sq, Not(t)) # {} THEN TurnForfeited
  ELSE EndState(sq, pl)

\* Game::next_turn that leaves nobody to move
next_turn_to_empty ==
  [turn |-> "Empty", current_legal_moves |-> None, state |-> Playing]

\* Game::next_turn that keeps the cached mask
next_turn_keeps_mask ==
  [turn |-> Not(turn), current_legal_moves |-> current_legal_moves,
   state |-> Playing]

\* Game::next_turn: the turn, the cached mask and the State it leaves
next_turn ==
  [turn |-> Not(turn), current_legal_moves |-> None, state |-> Playing]

\* Game::legal_moves, called at the top of the loop of Game::play
GameLegalMoves ==
  /\ Running /\ pc = "top"
  /\ current_legal_moves' = Some(Board_legal_moves(board, turn))
  /\ state' = StateAfterLegalMoves(board, turn, state, players)
  /\ pc' = "match"
  /\ ev' = Event("legal_moves", Move(0, 0))
  /\ UNCHANGED << board, turn, settings, save, players, previous_err, ret,
                  phase, disk, move_idx, nacc, nrej, algVars >>

\* Game::play entering the acquisition loop from State::TurnForfeited too
MatchPlaying_forfeited_too ==
  /\ Running /\ pc = "match" /\ state.tag \in {"Playing", "TurnForfeited"}
  /\ previous_err' = "None"
  /\ pc' = "think"
  /\ ev' = Event("playing", Move(0, 0))
  /\ UNCHANGED << gameVars, settings, save, players, ret, phase, disk,
                  move_idx, nacc, nrej, algVars >>

\* Game::play, State::Playing: enter the acquisition loop
MatchPlaying ==
  /\ Running /\ pc = "match" /\ state.tag = "Playing"
  /\ previous_err' = "None"
  /\ pc' = "think"
  /\ ev' = Event("playing", Move(0, 0))
  /\ UNCHANGED << gameVars, settings, save, players, ret, phase, disk,
                  move_idx, nacc, nrej, algVars >>

\* Game::play, State::Winned / State::Draw: passing the turn before the break
MatchOver_next_turn ==
  /\ Running /\ pc = "match" /\ state.tag \in {"Winned", "Draw"}
  /\ turn' = Not(turn)
  /\ pc' = "returned"
  /\ ret' = "Ok"
  /\ ev' = Event("over", Move(0, 0))
  /\ UNCHANGED << board, current_legal_moves, state, settings, save, players,
                  previous_err, phase, disk, move_idx, nacc, nrej, algVars >>

\* Game::play, State::Winned / State::Draw: break, return Ok(())
MatchOver ==
  /\ Running /\ pc = "match" /\ state.tag \in {"Winned", "Draw"}
  /\ pc' = "returned"
  /\ ret' = "Ok"
  /\ ev' = Event("over", Move(0, 0))
  /\ UNCHANGED << gameVars, settings, save, players, previous_err, phase,
                  disk, move_idx, nacc, nrej, algVars >>

\* Game::play, State::TurnForfeited: continue with the turn not passed
MatchForfeited_same_turn ==
  /\ Running /\ pc = "match" /\ state.tag = "TurnForfeited"
  /\ current_legal_moves' = None
  /\ state' = Playing
  /\ pc' = "top"
  /\ ev' = Event("forfeit", Move(0, 0))
  /\ UNCHANGED << board, turn, settings, save, players, previous_err, ret,
                  phase, disk, move_idx, nacc, nrej, algVars >>

\* Game::play, State::TurnForfeited: next_turn, continue
MatchForfeited ==
  /\ Running /\ pc = "match" /\ state.tag = "TurnForfeited"
  /\ turn' = next_turn.turn
  /\ current_legal_moves' = next_turn.current_legal_moves
  /\ state' = next_turn.state
  /\ pc' = "top"
  /\ ev' = Event("forfeit", Move(0, 0))
  /\ UNCHANGED << board, settings, save, players, previous_err, ret, phase,
                  disk, move_idx, nacc, nrej, algVars >>

\* Game::play: a write to the stream fails (render, the messages of the match
\* arms, the message of a rejected move) and `?` returns the IoError
PlayIoError ==
  /\ Running
  /\ pc = "match" \/ (pc = "top" /\ ev.kind = "rejected")
  /\ pc' = "returned"
  /\ ret' = "IoError"
  /\ ev' = Event("io_error", Move(0, 0))
  /\ UNCHANGED << gameVars, settings, save, players, previous_err, phase,
                  disk, move_idx, nacc, nrej, algVars >>

\* ------------------------------------------------------------ move sources
AllMoves == {Move(c, r) : c \in Coord, r \in Coord}

\* illegal moves a human is seen to type: an occupied centre square, a corner
ProbeMoves == {Move(3, 3), Move(0, 0)}

\* a complete game from Board::new: d3 c3 b3 e3 f3 f4 f5 b2 a1
Book == << 19, 18, 17, 20, 21, 29, 37, 9, 0 >>

\* the index tested by Game::make_turn: (row * 8 + col) as u64
MoveIdx(m) == m.row * 8 + m.col

\* Game::is_legal testing the next bit
is_legal_next_bit(bitfield, index) == (index + 1) \in bitfield

\* Game::is_legal
is_legal(bitfield, index) == index \in bitfield

LegalMovesNotComputed == [tag |-> "Err", err |-> "LegalMovesNotComputed"]

\* Game::is_legal_move answering from an absent mask as from the mask 0
is_legal_move_silent(clm, index) ==
  [tag |-> "Ok", val |-> is_legal(clm.val, index)]

\* Game::is_legal_move
is_legal_move(clm, index) ==
  IF ~clm.some THEN LegalMovesNotComputed
  ELSE [tag |-> "Ok", val |-> is_legal(clm.val, index)]

\* Game::render: the let-else on the mask, then writes that succeed or not
render(clm, written) ==
  IF ~clm.some THEN LegalMovesNotComputed
  ELSE IF written THEN [tag |-> "Ok"] ELSE [tag |-> "Err", err |-> "IoError"]

\* Game::moves: current_legal_moves.unwrap()
Game_moves(clm) ==
  IF ~clm.some THEN [tag |-> "Panic"] ELSE [tag |-> "Ok", val |-> clm.val]

\* Game::make_turn without the call of change_disc
BoardAfterMove_no_disc(sq, t, m) == put_discs(sq, move_outflanks(sq, t, m), t)

\* the board after Game::make_turn accepted m: change_disc, move_outflanks,
\* put_discs
BoardAfterMove(sq, t, m) ==
  LET placed == change_disc(sq, m, t)
  IN put_discs(placed, move_outflanks(placed, t, m), t)

RECURSIVE BookBoard(_)
BookBoard(k) ==
  IF k = 0 THEN Board_new
  ELSE BoardAfterMove(BookBoard(k - 1),
                      IF k % 2 = 1 THEN "Black" ELSE "White",
                      from_idx(Book[k]))

OnBook(m) ==
  /\ nacc < Len(Book)
  /\ m = from_idx(Book[nacc + 1])
  /\ board = BookBoard(nacc)

\* HumanPlayer::think returns Ok(m): Move::from_algebric of the line read
HumanThinkOk(m) ==
  /\ players[turn].kind = "Human"
  /\ m \in AllMoves
  /\ IF is_legal(current_legal_moves.val, MoveIdx(m))
     THEN nacc < MaxMoves \/ OnBook(m)
     ELSE m \in ProbeMoves /\ nrej < MaxRejected
  /\ move_idx' = move_idx

\* ReplayPlayer::think returns Ok(m): the move under the cursor
ReplayThinkOk(m) ==
  /\ players[turn].kind = "Replay"
  /\ previous_err = "None"
  /\ move_idx < Len(disk.moves)
  /\ m = disk.moves[move_idx + 1]
  /\ move_idx' = move_idx + 1

ThinkOk(m) == HumanThinkOk(m) \/ ReplayThinkOk(m)

\* GameSave::push_move, under `if self.settings.game_record`
Pushed(m) ==
  IF settings.game_record THEN [save EXCEPT !.moves = Append(@, m)] ELSE save

\* Game::play: think returns a move, it is recorded, Game::make_turn accepts
\* it, Game::next_turn
MoveAccepted ==
  /\ Running /\ pc = "think" /\ current_legal_moves.some
  /\ \E m \in AllMoves \cup Range(disk.moves) :
       /\ ThinkOk(m)
       /\ settings.game_record => save.some
       /\ is_legal_move(current_legal_moves, MoveIdx(m))
            = [tag |-> "Ok", val |-> TRUE]
       /\ save' = Pushed(m)
       /\ board' = BoardAfterMove(board, turn, m)
       /\ ev' = Event("accepted", m)
  /\ turn' = next_turn.turn
  /\ current_legal_moves' = next_turn.current_legal_moves
  /\ state' = next_turn.state
  /\ pc' = "top"
  /\ nacc' = nacc + 1
  /\ UNCHANGED << settings, players, previous_err, ret, phase, disk, nrej,
                  algVars >>

\* Game::play returning the IllegalMove of Game::make_turn to its caller
MoveRejected_returned ==
  /\ Running /\ pc = "think" /\ current_legal_moves.some
  /\ \E m \in AllMoves \cup Range(disk.moves) :
       /\ ThinkOk(m)
       /\ settings.game_record => save.some
       /\ is_legal_move(current_legal_moves, MoveIdx(m))
            = [tag |-> "Ok", val |-> FALSE]
       /\ save' = Pushed(m)
       /\ ev' = Event("rejected", m)
  /\ pc' = "returned"
  /\ ret' = "IllegalMove"
  /\ nrej' = nrej + 1
  /\ UNCHANGED << gameVars, settings, players, previous_err, phase, disk,
                  nacc, algVars >>

\* Game::play: think returns a move, it is recorded, Game::make_turn returns
\* IllegalMove, the loop of play starts over
MoveRejected ==
  /\ Running /\ pc = "think" /\ current_legal_moves.some
  /\ \E m \in AllMoves \cup Range(disk.moves) :
       /\ ThinkOk(m)
       /\ settings.game_record => save.some
       /\ is_legal_move(current_legal_moves, MoveIdx(m))
            = [tag |-> "Ok", val |-> FALSE]
       /\ save' = Pushed(m)
       /\ ev' = Event("rejected", m)
  /\ pc' = "top"
  /\ nrej' = nrej + 1
  /\ UNCHANGED << gameVars, settings, players, previous_err, ret, phase, disk,
                  nacc, algVars >>

\* Game::play: game_record is set and Game.save is None: panic!
RecordPanic ==
  /\ Running /\ pc = "think"
  /\ \E m \in AllMoves \cup Range(disk.moves) :
       /\ ThinkOk(m)
       /\ ev' = Event("panic", m)
  /\ settings.game_record /\ ~save.some
  /\ pc' = "returned"
  /\ ret' = "Panic"
  /\ UNCHANGED << gameVars, settings, save, players, previous_err, phase,
                  disk, nacc, nrej, algVars >>

\* think returns Err: HumanPlayer (InvalidAlgebric from Move::from_algebric,
\* IoError from the stream) or ReplayPlayer (IoError, after the cursor moved);
\* play keeps the error and calls think again
ThinkErr ==
  /\ Running /\ pc = "think"
  /\ \/ /\ players[turn].kind = "Human"
        /\ previous_err' \in {"InvalidAlgebric", "IoError"}
        /\ move_idx' = move_idx
     \/ /\ players[turn].kind = "Replay"
        /\ previous_err = "None"
        /\ move_idx < Len(disk.moves)
        /\ previous_err' = "IoError"
        /\ move_idx' = move_idx + 1
  /\ ev' = Event("think_err", Move(0, 0))
  /\ UNCHANGED << gameVars, settings, save, players, pc, ret, phase, disk,
                  nacc, nrej, algVars >>

\* ReplayPlayer::think panics: assert!(err.is_none()), or the cursor is past
\* the end of the recorded moves
ReplayThinkPanic ==
  /\ Running /\ pc = "think"
  /\ players[turn].kind = "Replay"
  /\ previous_err # "None" \/ move_idx >= Len(disk.moves)
  /\ pc' = "returned"
  /\ ret' = "Panic"
  /\ ev' = Event("panic", Move(0, 0))
  /\ UNCHANGED << gameVars, settings, save, players, previous_err, phase,
                  disk, move_idx, nacc, nrej, algVars >>

\* Game::post_play run after any return of play
PostPlay_after_any_return ==
  /\ phase = "play" /\ pc = "returned" /\ ret \in {"Ok", "IoError"}
  /\ phase' = "post"
  /\ disk' = IF save.some THEN [save EXCEPT !.end_state = state] ELSE disk
  /\ ev' = Event("post_play", Move(0, 0))
  /\ UNCHANGED << gameVars, settings, save, players, pc, previous_err, ret,
                  move_idx, nacc, nrej, algVars >>

\* Game::post_play after play returned Ok: the save, if any, gets the final
\* State and is written
PostPlay ==
  /\ phase = "play" /\ pc = "returned" /\ ret = "Ok"
  /\ phase' = "post"
  /\ disk' = IF save.some THEN [save EXCEPT !.end_state = state] ELSE disk
  /\ ev' = Event("post_play", Move(0, 0))
  /\ UNCHANGED << gameVars, settings, save, players, pc, previous_err, ret,
                  move_idx, nacc, nrej, algVars >>

ReplayPlayers(sv) ==
  [c \in {"Black", "White"} |->
     [kind |-> "Replay",
      name |-> IF c = "Black" THEN sv.black_name ELSE sv.white_name]]

\* GameSave::replay on the save read back: a Game::new with two ReplayPlayers
ReplayStart ==
  /\ phase = "post" /\ disk.some
  /\ phase' = "replay"
  /\ board' = Board_new
  /\ turn' = "Black"
  /\ current_legal_moves' = None
  /\ state' = Playing
  /\ settings' = [game_record |-> FALSE, saves_game_dir |-> FALSE]
  /\ save' = NoSave
  /\ players' = ReplayPlayers(disk)
  /\ pc' = "top"
  /\ previous_err' = "None"
  /\ ret' = "None"
  /\ move_idx' = 0
  /\ nacc' = 0
  /\ nrej' = 0
  /\ ev' = [kind |-> "replay", mov |-> Move(0, 0), color |-> "Black",
            pre |-> [board |-> Board_new, turn |-> "Black", state |-> Playing,
                     current_legal_moves |-> None, moves |-> <<>>]]
  /\ UNCHANGED << disk, algVars >>

\* GameSave::replay after play returned Ok: post_play, then
\* assert_eq!(game_state, self.end_state)
ReplayEnd ==
  /\ phase = "replay" /\ pc = "returned" /\ ret = "Ok"
  /\ phase' = "replayed"
  /\ ret' = IF state = disk.end_state THEN "Ok" ELSE "Panic"
  /\ ev' = Event("replay_end", Move(0, 0))
  /\ UNCHANGED << gameVars, settings, save, players, pc, previous_err, disk,
                  move_idx, nacc, nrej, algVars >>

Next ==
  \/ GameLegalMoves
  \/ MatchPlaying
  \/ MatchOver
  \/ MatchForfeited
  \/ PlayIoError
  \/ MoveAccepted
  \/ MoveRejected
  \/ RecordPanic
  \/ ThinkErr
  \/ ReplayThinkPanic
  \/ PostPlay
  \/ ReplayStart
  \/ ReplayEnd

Spec == Init /\ [][Next]_vars

\* ------------------------------------------------ Game::play to its end
\* games on the imported boards, which have few Empty squares, with settings
\* under which Game::with_board builds a save iff moves are recorded
InitPlay ==
  /\ Init
  /\ board # Board_new
  /\ settings.game_record = settings.saves_game_dir

\* the steps of one call of Game::play
NextPlay ==
  \/ GameLegalMoves
  \/ MatchPlaying
  \/ MatchOver
  \/ MatchForfeited
  \/ PlayIoError
  \/ MoveAccepted
  \/ MoveRejected
  \/ ThinkErr

\* Game::play runs on between two calls of think (Game::legal_moves and the
\* match on the State wait for nothing), and the player asked for a move
\* supplies a legal one sooner or later
SpecPlay ==
  /\ InitPlay
  /\ [][NextPlay]_vars
  /\ WF_vars(GameLegalMoves \/ MatchPlaying \/ MatchOver \/ MatchForfeited)
  /\ SF_vars(MoveAccepted)

\* ------------------------------------------- Board functions on given boards
\* the squares that are not left Empty in the boards given to the Board
\* functions, in the order they are added
WindowCells == << 0, 1, 2, 3, 9, 18, 27, 8, 16 >>
WindowSize == 6

Window == {WindowCells[k] : k \in 1 .. WindowSize}

BoardFamily ==
  {[i \in Idx |-> IF i \in Window THEN f[i] ELSE "Empty"] :
     f \in [Window -> Disc]}

InitBoard ==
  /\ board \in BoardFamily
  /\ turn \in Disc
  /\ current_legal_moves = None
  /\ state = Playing
  /\ settings = [game_record |-> FALSE, saves_game_dir |-> FALSE]
  /\ players = HumanPlayers
  /\ save = NoSave
  /\ pc = "board"
  /\ previous_err = "None"
  /\ ret = "None"
  /\ phase = "board"
  /\ disk = NoSave
  /\ move_idx = 0
  /\ ev = [kind |-> "init", mov |-> Move(0, 0), color |-> turn,
           pre |-> [board |-> board, turn |-> turn, state |-> state,
                    current_legal_moves |-> current_legal_moves,
                    moves |-> <<>>]]
  /\ nacc = 0
  /\ nrej = 0
  /\ alg_in = <<>>
  /\ alg_out = [tag |-> "None"]
  /\ notation = <<>>
  /\ out = [tag |-> "None"]
  /\ mv = Move(0, 0)
  /\ ix = 0

\* the moves given to Board::move_outflanks: a1, d1
OutflankMoves == {Move(0, 0), Move(3, 0)}

\* a call of Board::legal_moves(turn) on the board
CallLegalMoves ==
  /\ phase = "board" /\ pc = "board"
  /\ IF legal_moves_panics(turn)
     THEN /\ pc' = "panicked"
          /\ out' = [tag |-> "Panic"]
          /\ UNCHANGED current_legal_moves
     ELSE /\ pc' = "called"
          /\ current_legal_moves' = Some(Board_legal_moves(board, turn))
          /\ UNCHANGED out
  /\ ev' = Event("legal_moves", Move(0, 0))
  /\ UNCHANGED << board, turn, state, settings, save, players, previous_err,
                  ret, phase, disk, move_idx, nacc, nrej, alg_in, alg_out,
                  notation, mv, ix >>

\* a call of Board::move_outflanks(turn, m) on the board
CallMoveOutflanks ==
  /\ phase = "board" /\ pc = "board"
  /\ \E m \in OutflankMoves :
       /\ mv' = m
       /\ ev' = Event("move_outflanks", m)
       /\ IF move_outflanks_panics(turn)
          THEN /\ pc' = "panicked"
               /\ out' = [tag |-> "Panic"]
          ELSE /\ pc' = "outflanked"
               /\ out' = [tag |-> "Ok", val |-> move_outflanks(board, turn, m)]
  /\ UNCHANGED << gameVars, settings, save, players, previous_err, ret, phase,
                  disk, move_idx, nacc, nrej, alg_in, alg_out, notation, ix >>

NextBoard == CallLegalMoves \/ CallMoveOutflanks

SpecBoard == InitBoard /\ [][NextBoard]_vars

\* ------------------------------------------- Move::from_algebric on given text
\* the chars of the strings given to Move::from_algebric: ` a h i A 1 8 0 9,
\* and three chars that are not ASCII: U+00E9, U+0161 (low byte 'a'), U+20AC
AlgChars == {96, 97, 104, 105, 65, 49, 56, 48, 57, 233, 353, 8364}

RECURSIVE Strings(_)
Strings(n) ==
  IF n = 0 THEN {<<>>}
  ELSE LET shorter == Strings(n - 1)
       IN shorter \cup {Append(s, c) : s \in shorter, c \in AlgChars}

InitAlg ==
  /\ alg_in \in Strings(MaxLen)
  /\ alg_out = [tag |-> "None"]
  /\ board = Board_new
  /\ turn = "Black"
  /\ current_legal_moves = None
  /\ state = Playing
  /\ settings = [game_record |-> FALSE, saves_game_dir |-> FALSE]
  /\ players = HumanPlayers
  /\ save = NoSave
  /\ pc = "alg"
  /\ previous_err = "None"
  /\ ret = "None"
  /\ phase = "alg"
  /\ disk = NoSave
  /\ move_idx = 0
  /\ ev = [kind |-> "init", mov |-> Move(0, 0), color |-> turn,
           pre |-> [board |-> board, turn |-> turn, state |-> state,
                    current_legal_moves |-> current_legal_moves,
                    moves |-> <<>>]]
  /\ nacc = 0
  /\ nrej = 0
  /\ notation = <<>>
  /\ out = [tag |-> "None"]
  /\ mv = Move(0, 0)
  /\ ix = 0

\* a call of Move::from_algebric(alg_in)
CallFromAlgebric ==
  /\ phase = "alg" /\ pc = "alg"
  /\ alg_out' = from_algebric(alg_in)
  /\ pc' = "called"
  /\ UNCHANGED << gameVars, settings, save, players, previous_err, ret, phase,
                  disk, move_idx, ev, nacc, nrej, alg_in, notation, out,
                  mv, ix >>

NextAlg == CallFromAlgebric

SpecAlg == InitAlg /\ [][NextAlg]_vars

\* ------------------------------------------- Game::make_turn on given moves
\* Game::make_turn with the width of its arithmetic. `row * 8 + col` is
\* computed in u8 and `1 << index` in u64: with overflow checks (checked) an
\* overflow panics, without them the sum wraps to 8 bits and the shift count
\* to 6 bits. A move that passes the test reaches the asserts of change_disc.
make_turn(sq, t, clm, m, checked) ==
  LET wide == m.row * 8 + m.col
      idx == wide % (U8Max + 1)
      stays(tag, err) ==
        [tag |-> tag, err |-> err, board |-> sq, turn |-> t,
         current_legal_moves |-> clm, state |-> Playing]
  IN IF wide > U8Max /\ checked THEN stays("Panic", "overflow")
     ELSE IF ~clm.some THEN stays("Err", "LegalMovesNotComputed")
     ELSE IF idx >= Squares /\ checked THEN stays("Panic", "overflow")
     ELSE IF ~is_legal(clm.val, idx % Squares) THEN stays("Err", "IllegalMove")
     ELSE IF ~(m.col < 8) \/ ~(m.row < 8) THEN stays("Panic", "assert")
     ELSE [tag |-> "Ok", err |-> "None",
           board |-> BoardAfterMove(sq, t, m), turn |-> Not(t),
           current_legal_moves |-> None, state |-> Playing]

\* Moves with a col or a row outside 0..7, as a Player or a save file can hold
WideMoves == {Move(8, 0), Move(11, 1), Move(0, 8), Move(3, 34), Move(255, 255)}

\* the Game when play calls make_turn for the first time: the mask of Black
\* is computed and not 0
InitTurn ==
  /\ board \in {b \in StartBoards : Board_legal_moves(b, "Black") # {}}
  /\ turn = "Black"
  /\ current_legal_moves = Some(Board_legal_moves(board, turn))
  /\ state = Playing
  /\ mv \in AllMoves \cup WideMoves
  /\ out = [tag |-> "None"]
  /\ phase = "turn"
  /\ pc = "think"
  /\ settings = [game_record |-> FALSE, saves_game_dir |-> FALSE]
  /\ players = HumanPlayers
  /\ save = NoSave
  /\ previous_err = "None"
  /\ ret = "None"
  /\ disk = NoSave
  /\ move_idx = 0
  /\ ev = [kind |-> "init", mov |-> Move(0, 0), color |-> turn,
           pre |-> [board |-> board, turn |-> turn, state |-> state,
                    current_legal_moves |-> current_legal_moves,
                    moves |-> <<>>]]
  /\ nacc = 0
  /\ nrej = 0
  /\ alg_in = <<>>
  /\ alg_out = [tag |-> "None"]
  /\ notation = <<>>
  /\ ix = 0

\* a call of Game::make_turn(mv), in a build with or without overflow checks
CallMakeTurn ==
  /\ phase = "turn" /\ pc = "think"
  /\ \E checked \in BOOLEAN :
       LET r == make_turn(board, turn, current_legal_moves, mv, checked)
       IN /\ board' = r.board
          /\ turn' = r.turn
          /\ current_legal_moves' = r.current_legal_moves
          /\ state' = r.state
          /\ out' = [tag |-> r.tag, err |-> r.err]
  /\ pc' = "made"
  /\ ev' = Event("make_turn", mv)
  /\ UNCHANGED << settings, save, players, previous_err, ret, phase, disk,
                  move_idx, nacc, nrej, alg_in, alg_out, notation, mv, ix >>

NextTurn == CallMakeTurn

SpecTurn == InitTurn /\ [][NextTurn]_vars

\* ------------------------------------------- Board::from_str on given text
\* the chars written into a notation: - O X, and x, U+00E9 (two bytes)
NotationChars == {DASH, CHO, CHX, 120, 233}

\* where they are written: the first, the second and the last char
EditPositions == {1, 2, NotationLen}

RECURSIVE Edited(_)
Edited(n) ==
  IF n = 0 THEN Notations
  ELSE LET fewer == Edited(n - 1)
       IN fewer \cup {[s EXCEPT ![k] = c] :
                        s \in fewer, k \in EditPositions, c \in NotationChars}

\* the strings given to Board::from_str: 64, 63 and 65 chars long
NotationInputs ==
  UNION {{s, SubSeq(s, 1, Len(s) - 1), Append(s, DASH)} : s \in Edited(MaxEdits)}

InitNotation ==
  /\ notation \in NotationInputs
  /\ out = [tag |-> "None"]
  /\ phase = "notation"
  /\ pc = "notation"
  /\ board = Board_new
  /\ turn = "Black"
  /\ current_legal_moves = None
  /\ state = Playing
  /\ settings = [game_record |-> FALSE, saves_game_dir |-> FALSE]
  /\ players = HumanPlayers
  /\ save = NoSave
  /\ previous_err = "None"
  /\ ret = "None"
  /\ disk = NoSave
  /\ move_idx = 0
  /\ ev = [kind |-> "init", mov |-> Move(0, 0), color |-> turn,
           pre |-> [board |-> board, turn |-> turn, state |-> state,
                    current_legal_moves |-> current_legal_moves,
                    moves |-> <<>>]]
  /\ nacc = 0
  /\ nrej = 0
  /\ alg_in = <<>>
  /\ alg_out = [tag |-> "None"]
  /\ mv = Move(0, 0)
  /\ ix = 0

\* a call of Board::from_str(notation)
CallFromStr ==
  /\ phase = "notation" /\ pc = "notation"
  /\ out' = Board_from_str(notation)
  /\ pc' = "called"
  /\ UNCHANGED << gameVars, settings, save, players, previous_err, ret, phase,
                  disk, move_idx, ev, nacc, nrej, alg_in, alg_out, notation,
                  mv, ix >>

NextNotation == CallFromStr

SpecNotation == InitNotation /\ [][NextNotation]_vars

\* ------------------------------------- Move::into_idx and Move::from_idx
\* the call sequences start from a Move with col, row in 0..7 (pc = "move")
\* or from an index in 0..63 (pc = "index")
InitMove ==
  /\ \/ pc = "move" /\ mv \in AllMoves /\ ix = 0
     \/ pc = "index" /\ ix \in Idx /\ mv = Move(0, 0)
  /\ phase = "move"
  /\ board = Board_new
  /\ turn = "Black"
  /\ current_legal_moves = None
  /\ state = Playing
  /\ settings = [game_record |-> FALSE, saves_game_dir |-> FALSE]
  /\ players = HumanPlayers
  /\ save = NoSave
  /\ previous_err = "None"
  /\ ret = "None"
  /\ disk = NoSave
  /\ move_idx = 0
  /\ ev = [kind |-> "init", mov |-> Move(0, 0), color |-> turn,
           pre |-> [board |-> board, turn |-> turn, state |-> state,
                    current_legal_moves |-> current_legal_moves,
                    moves |-> <<>>]]
  /\ nacc = 0
  /\ nrej = 0
  /\ alg_in = <<>>
  /\ alg_out = [tag |-> "None"]
  /\ notation = <<>>
  /\ out = [tag |-> "None"]

\* a call of mv.into_idx(), on the Move given or on the one from_idx returned
CallIntoIdx ==
  /\ phase = "move" /\ pc \in {"move", "from_idx"}
  /\ ix' = into_idx(mv)
  /\ pc' = IF pc = "move" THEN "into_idx" ELSE "round_trip"
  /\ UNCHANGED << gameVars, settings, save, players, previous_err, ret, phase,
                  disk, move_idx, ev, nacc, nrej, alg_in, alg_out, notation,
                  out, mv >>

\* a call of Move::from_idx(ix), on the index given or on the one into_idx
\* returned
CallFromIdx ==
  /\ phase = "move" /\ pc \in {"index", "into_idx"}
  /\ mv' = from_idx(ix)
  /\ pc' = IF pc = "index" THEN "from_idx" ELSE "round_trip"
  /\ UNCHANGED << gameVars, settings, save, players, previous_err, ret, phase,
                  disk, move_idx, ev, nacc, nrej, alg_in, alg_out, notation,
                  out, ix >>

NextMove == CallIntoIdx \/ CallFromIdx

SpecMove == InitMove /\ [][NextMove]_vars

\* ------------------------------------------------------ the rules, as stated
\* the square j steps from (x, y) in direction d holds disc
OnRay(sq, x, y, d, j, disc) ==
  LET nx == x + j * DIRECTIONS[d][1]
      ny == y + j * DIRECTIONS[d][2]
  IN InBoard(nx, ny) /\ sq[ny * 8 + nx] = disc

\* from (x, y) in direction d: k discs of the opponent of c, then a disc of c
Sandwich(sq, c, x, y, d, k) ==
  /\ \A j \in 1 .. k : OnRay(sq, x, y, d, j, Not(c))
  /\ OnRay(sq, x, y, d, k + 1, c)

RunLengths == 1 .. (Side - 2)

\* the squares where c may play
RuleLegal(sq, c) ==
  {i \in Idx :
     /\ sq[i] = "Empty"
     /\ \E d \in Dirs, k \in RunLengths : Sandwich(sq, c, i % 8, i \div 8, d, k)}

\* the squares a disc of c played at m outflanks
RuleFlips(sq, c, m) ==
  {i \in Idx :
     \E d \in Dirs, k \in RunLengths :
       /\ Sandwich(sq, c, m.col, m.row, d, k)
       /\ \E j \in 1 .. k :
            i = (m.row + j * DIRECTIONS[d][2]) * 8 + m.col + j * DIRECTIONS[d][1]}

Colors == {"Black", "White"}

\* ------------------------------------------------------------------ claims
\* C1: an accepted move p by c changes the color of a square other than p only
\* if the square is in a run of opponent discs that starts next to p and is
\* closed by a disc of c
C1_FlipsOnlySandwiched ==
  ev.kind = "accepted" =>
    \A i \in Idx \ {MoveIdx(ev.mov)} :
      board[i] # ev.pre.board[i] => i \in RuleFlips(ev.pre.board, ev.color, ev.mov)

\* C2: bit i of Board::legal_moves(c) is set iff square i is Empty and some
\* direction holds a run of opponent discs closed by a disc of c
C2_LegalMovesAreSandwiches ==
  (phase = "board" /\ pc = "called") =>
    current_legal_moves = Some(RuleLegal(board, turn))

\* C2 witness: legal_moves returned a mask with square 0 legal through a run
\* of two discs along the top edge, on a board with an Empty square next to an
\* opponent disc that is not legal
C2_Witness ==
  /\ phase = "board" /\ pc = "called"
  /\ 0 \in current_legal_moves.val
  /\ board[1] = Not(turn) /\ board[2] = Not(turn) /\ board[3] = turn
  /\ board[18] = "Empty" /\ board[9] = Not(turn)
  /\ 18 \notin current_legal_moves.val

\* C3: the replay of the save of a completed game never asks for a move past
\* the end of the recorded list and ends in the recorded end_state
C3_ReplayReproduces ==
  /\ (phase = "replay" /\ pc = "think" /\ previous_err = "None")
       => move_idx < Len(disk.moves)
  /\ phase = "replayed" => (ret = "Ok" /\ state = disk.end_state)

\* C4: when Game::legal_moves finds no legal move for either color the state
\* is Draw on equal counts, else Winned for the color with more discs, with
\* winner_score = max + empty, loser_score = min, and the two sum to 64
C4_EndState ==
  LET w == Cardinality({i \in Idx : board[i] = "White"})
      b == Cardinality({i \in Idx : board[i] = "Black"})
      e == Cardinality({i \in Idx : board[i] = "Empty"})
  IN (/\ ev.kind = "legal_moves" /\ phase \in {"play", "replay"}
      /\ current_legal_moves.val = {}
      /\ Board_legal_moves(board, Not(turn)) = {})
     => IF w = b THEN state = Draw
        ELSE /\ state.tag = "Winned"
             /\ state.winner_color = (IF w > b THEN "White" ELSE "Black")
             /\ state.winner_score = (IF w > b THEN w ELSE b) + e
             /\ state.loser_score = (IF w > b THEN b ELSE w)
             /\ state.winner_score + state.loser_score = Squares

\* C4 witness: a game declared won with empty squares left and a loser that
\* still has discs
C4_Witness ==
  /\ ev.kind = "legal_moves" /\ state.tag = "Winned"
  /\ state.loser_score > 0
  /\ \E i \in Idx : board[i] = "Empty"

\* C5: a color without a legal move whose opponent has one gets
\* TurnForfeited, and the forfeiture step leaves the board unchanged, gives
\* the turn to the opponent, clears the mask and resets the state to Playing
C5_Forfeiture ==
  /\ (/\ ev.kind = "legal_moves" /\ phase \in {"play", "replay"}
      /\ current_legal_moves.val = {}
      /\ Board_legal_moves(board, Not(turn)) # {})
     => state = TurnForfeited
  /\ ev.kind = "forfeit" =>
       /\ ev.pre.state = TurnForfeited
       /\ board = ev.pre.board
       /\ turn = Not(ev.pre.turn)
       /\ current_legal_moves = None
       /\ state = Playing

\* C5 witness: a forfeiture step has just been taken after an accepted move
C5_Witness == ev.kind = "forfeit" /\ nacc > 0

\* C6: a supplied move changes the board and the turn only when its bit is set
\* in the mask computed for the color to move on the current board; any other
\* move is rejected and the same color is to move on the same board
C6_OnlyLegalMovesPlayed ==
  /\ ev.kind = "accepted" =>
       /\ ev.pre.current_legal_moves =
            Some(Board_legal_moves(ev.pre.board, ev.pre.turn))
       /\ MoveIdx(ev.mov) \in Board_legal_moves(ev.pre.board, ev.pre.turn)
  /\ ev.kind = "rejected" =>
       /\ MoveIdx(ev.mov) \notin Board_legal_moves(ev.pre.board, ev.pre.turn)
       /\ board = ev.pre.board
       /\ turn = ev.pre.turn
       /\ pc = "top" /\ ret = "None"
  /\ (phase \in {"play", "replay"} /\ ev.kind \notin {"accepted", "replay"})
       => board = ev.pre.board

\* C6 witness: a move to an Empty square that outflanks nothing was rejected
C6_Witness ==
  /\ ev.kind = "rejected"
  /\ board[MoveIdx(ev.mov)] = "Empty"
  /\ ev.mov \in AllMoves

\* C7: a rejected move leaves the board, the turn, the state, the cached mask
\* and the recorded move list as they were
C7_RejectedMoveLeavesGame ==
  ev.kind = "rejected" =>
    /\ board = ev.pre.board
    /\ turn = ev.pre.turn
    /\ state = ev.pre.state
    /\ current_legal_moves = ev.pre.current_legal_moves
    /\ save.moves = ev.pre.moves

\* C8: Move::from_algebric returns Ok(Move{letter - 'a', digit - '1'}) on a
\* letter a..h followed by a digit 1..8, and InvalidAlgebric carrying the text
\* on every other string, without a panic
C8_FromAlgebricTotal ==
  (phase = "alg" /\ pc = "called") =>
    IF /\ Len(alg_in) = 2
       /\ alg_in[1] \in LowerA .. LowerH
       /\ alg_in[2] \in Digit1 .. Digit8
    THEN alg_out = [tag |-> "Ok",
                    mov |-> Move(alg_in[1] - LowerA, alg_in[2] - Digit1)]
    ELSE alg_out = [tag |-> "Err", err |-> "InvalidAlgebric", text |-> alg_in]

\* C9: in every state of a game the three counts of Board::scores sum to 64
\* and no u8 counter overflows
C9_ScoresSum ==
  phase \in {"play", "post", "replay", "replayed"} =>
    LET s == scores(board)
    IN s.white + s.black + s.empty = Squares /\ ~s.ovf

\* C9 witness: Game::legal_moves has called scores after accepted moves and a
\* forfeiture
C9_Witness ==
  /\ ev.kind = "legal_moves" /\ state.tag \in {"Winned", "Draw"}
  /\ nacc = MaxMoves
  /\ scores(board).white > 0 /\ scores(board).black > 0

\* C10: on the board of Board::new the mask of Black is exactly the four
\* squares 19, 26, 37, 44 (d3, c4, f5, e6)
C10_OpeningMoves ==
  (/\ phase \in {"play", "replay"} /\ board = Board_new /\ turn = "Black"
   /\ current_legal_moves.some)
  => /\ current_legal_moves.val = {19, 26, 37, 44}
     /\ Cardinality(current_legal_moves.val) = 4
     /\ {from_idx(i) : i \in current_legal_moves.val}
          = {Move(3, 2), Move(2, 3), Move(5, 4), Move(4, 5)}

\* C10 witness: Game::legal_moves has run on the board of Board::new
C10_Witness ==
  /\ phase = "play" /\ board = Board_new /\ turn = "Black"
  /\ current_legal_moves.some

\* C11: on the board of Board::new with Black to move, d3 (col 3, row 2) has
\* its bit in the mask, and once accepted it has flipped exactly one disc and
\* left 4 Black discs, 1 White disc and 59 Empty squares
C11_OpeningD3 ==
  /\ (pc = "think" /\ board = Board_new /\ turn = "Black")
       => is_legal(current_legal_moves.val, into_idx(Move(3, 2)))
  /\ (ev.kind = "accepted" /\ ev.pre.board = Board_new /\ ev.color = "Black"
        /\ ev.mov = Move(3, 2))
       => /\ Cardinality({i \in Idx \ {into_idx(ev.mov)} :
                            board[i] # ev.pre.board[i]}) = 1
          /\ board[into_idx(ev.mov)] = "Black"
          /\ scores(board).black = 4
          /\ scores(board).white = 1
          /\ scores(board).empty = 59

\* C11 witness: Black's d3 has just been accepted on the board of Board::new
C11_Witness ==
  /\ phase = "play" /\ ev.kind = "accepted" /\ ev.pre.board = Board_new
  /\ ev.color = "Black" /\ ev.mov = Move(3, 2) /\ turn = "White"

\* C13: from_idx applied to the index of a Move with col, row in 0..7 gives
\* the Move back; into_idx applied to from_idx(i), i in 0..63, gives i back,
\* and from_idx(i) has col = i % 8 and row = i / 8
C13_MoveIdxRoundTrip ==
  [][/\ (pc = "into_idx" /\ pc' = "round_trip") => mv' = mv
     /\ (pc = "from_idx" /\ pc' = "round_trip") => ix' = ix
     /\ (pc = "index" /\ pc' = "from_idx")
          => mv'.col = ix % 8 /\ mv'.row = ix \div 8]_vars

\* C13 witness: the round trip of the Move g8 through its index 62 is done
C13_Witness ==
  /\ phase = "move" /\ pc = "round_trip"
  /\ mv = Move(6, 7) /\ ix = 62

\* C12: Board::legal_moves and Board::move_outflanks called with Disc::Empty
\* panic on every board: no mask is returned, in particular not the mask 0
C12_EmptyPlayerPanics ==
  (phase = "board" /\ turn = "Empty"
     /\ ev.kind \in {"legal_moves", "move_outflanks"})
    => pc = "panicked" /\ out = [tag |-> "Panic"] /\ ~current_legal_moves.some

\* C12 witness: legal_moves(Empty) has been called on a board that holds
\* discs of both colors
C12_Witness ==
  /\ phase = "board" /\ turn = "Empty" /\ ev.kind = "legal_moves"
  /\ pc = "panicked"
  /\ board[0] = "Black" /\ board[1] = "White"

\* C14: Board::from_str succeeds iff the string has exactly 64 chars, each
\* one of - O X, and then square i holds the disc of char i; a string of
\* another length gives InvalidLenghtOfNotation, and a string of 64 chars with
\* another char gives InvalidCharInNotation
C14_FromStr ==
  (phase = "notation" /\ pc = "called") =>
    LET wellFormed == /\ Len(notation) = NotationLen
                      /\ \A k \in 1 .. Len(notation) :
                           notation[k] \in {DASH, CHO, CHX}
    IN /\ (out.tag = "Ok") <=> wellFormed
       /\ out.tag = "Ok" =>
            \A i \in Idx :
              out.squares[i] = CASE notation[i + 1] = DASH -> "Empty"
                                 [] notation[i + 1] = CHO -> "White"
                                 [] notation[i + 1] = CHX -> "Black"
       /\ Len(notation) # NotationLen =>
            out = [tag |-> "Err", err |-> "InvalidLenghtOfNotation"]
       /\ (Len(notation) = NotationLen /\ ~wellFormed) =>
            (out.tag = "Err" /\ out.err = "InvalidCharInNotation")

\* C15: the error Board::from_str returns for a bad char holds the char and
\* its position in the string
C15_BadCharPosition ==
  (phase = "notation" /\ pc = "called" /\ out.tag = "Err"
     /\ out.err = "InvalidCharInNotation") =>
    LET bad == {k \in 1 .. Len(notation) : notation[k] \notin {DASH, CHO, CHX}}
        first == CHOOSE k \in bad : \A j \in bad : k <= j
    IN /\ out.ch = notation[first]
       /\ "pos" \in DOMAIN out
       /\ out.pos = first

\* C16: the cached mask is absent right after every turn change (an accepted
\* move, a forfeiture); while it is absent is_legal_move and render return
\* LegalMovesNotComputed and Game::moves panics; while it is present it is
\* Board::legal_moves(turn) of the current board
C16_MaskCache ==
  /\ ev.kind \in {"accepted", "forfeit"} => current_legal_moves = None
  /\ ~current_legal_moves.some =>
       /\ \A i \in Idx :
            is_legal_move(current_legal_moves, i) = LegalMovesNotComputed
       /\ \A written \in BOOLEAN :
            render(current_legal_moves, written) = LegalMovesNotComputed
       /\ Game_moves(current_legal_moves).tag = "Panic"
  /\ current_legal_moves.some =>
       current_legal_moves.val = Board_legal_moves(board, turn)

\* C16 witness: the first move of a game has just been accepted, out of a
\* mask of several moves, and the mask is absent
C16_Witness ==
  /\ ev.kind = "accepted" /\ nacc = 1 /\ pc = "top"
  /\ Cardinality(ev.pre.current_legal_moves.val) > 1
  /\ ~current_legal_moves.some

\* C17: when Game::play has returned, with Ok or with an error, the State is
\* not TurnForfeited; when it has returned Ok the State is Draw or Winned
C17_NoForfeitAtStop ==
  (pc = "returned" /\ ret \in {"Ok", "IoError"}) =>
    /\ state.tag # "TurnForfeited"
    /\ ret = "Ok" => state.tag \in {"Draw", "Winned"}

\* C18: once Game::legal_moves has set the State to Draw or Winned, play is at
\* its match, and the step it takes from there returns, changes neither
\* board, turn nor State, and requests no move
C18_TerminalStops ==
  /\ [][(Running /\ state.tag \in {"Draw", "Winned"}) =>
          /\ pc' = "returned" /\ ret' # "None"
          /\ board' = board /\ turn' = turn /\ state' = state
          /\ nacc' = nacc /\ nrej' = nrej /\ move_idx' = move_idx]_vars
  /\ [](Running /\ state.tag \in {"Draw", "Winned"} => pc = "match")

\* C18 witness: play has returned Ok from a won game in which moves were
\* accepted
C18_Witness ==
  /\ phase = "play" /\ pc = "returned" /\ ret = "Ok" /\ ev.kind = "over"
  /\ state.tag = "Winned" /\ nacc > 0

\* C19: Game::play never returns InvalidAlgebric or IllegalMove; after an
\* InvalidAlgebric the request for a move is repeated at once; after an
\* IllegalMove the steps of play lead, with board and turn unchanged, through
\* Game::legal_moves and the match on State::Playing to a request for a move
\* of the same color, unless a write fails
C19_RetryOnBadMove ==
  /\ [](ret \notin {"InvalidAlgebric", "IllegalMove"})
  /\ []((ev.kind = "think_err" /\ previous_err = "InvalidAlgebric")
          => (pc = "think" /\ ret = "None" /\ turn = ev.pre.turn))
  /\ []((ev.kind = "rejected")
          => (turn = ev.pre.turn /\ board = ev.pre.board /\ pc = "top"
              /\ ret = "None"))
  /\ [][(ev.kind = "rejected" /\ Running) =>
          \/ ret' = "IoError"
          \/ /\ pc' = "match" /\ state'.tag = "Playing"
             /\ turn' = turn /\ board' = board
             /\ current_legal_moves' = ev.pre.current_legal_moves]_vars
  /\ [][(pc = "match" /\ state.tag = "Playing" /\ Running) =>
          \/ ret' = "IoError"
          \/ pc' = "think" /\ turn' = turn /\ board' = board]_vars

\* C19 witness: after a rejected move of Black, play is asking Black again
C19_Witness ==
  /\ phase = "play" /\ pc = "think" /\ turn = "Black" /\ nrej > 0
  /\ ev.kind = "playing" /\ nacc = 0

\* C20: an IoError or a LegalMovesNotComputed returned by think makes
\* Game::play return that error
C20_IoErrorReturned ==
  (ev.kind = "think_err"
     /\ previous_err \in {"IoError", "LegalMovesNotComputed"})
    => (pc = "returned" /\ ret = previous_err)

\* C21: in a replay the k-th call of think returns the k-th recorded move and
\* moves the cursor by one: after every call the cursor counts the moves
\* returned so far, and the move just returned is the one under it
C21_ReplayOrder ==
  phase = "replay" =>
    /\ move_idx = nacc + nrej
    /\ ev.kind \in {"accepted", "rejected"} =>
         (move_idx >= 1 /\ ev.mov = disk.moves[move_idx])

\* C22: the save is written at most once, by post_play after play returned
\* from a Draw or Winned State, and the end_state written is that State
C22_SaveWrittenOnce ==
  /\ [][disk' # disk =>
          /\ ~disk.some /\ phase = "play" /\ phase' = "post"
          /\ pc = "returned" /\ ret = "Ok"
          /\ state.tag \in {"Draw", "Winned"}
          /\ disk'.end_state = state /\ disk'.moves = save.moves]_vars
  /\ [](disk.some => disk.end_state.tag \in {"Draw", "Winned"})

\* C22 witness: the save of a won game with recorded moves has been written
C22_Witness ==
  /\ phase = "post" /\ disk.some /\ disk.end_state.tag = "Winned"
  /\ Len(disk.moves) > 0 /\ disk.end_state = state

\* C23: a Move with col or row of 8 or more given to Game::make_turn is
\* rejected with IllegalMove and the board is unchanged
C23_WideMoveRejected ==
  (phase = "turn" /\ pc = "made" /\ (mv.col >= 8 \/ mv.row >= 8)) =>
    /\ out = [tag |-> "Err", err |-> "IllegalMove"]
    /\ board = ev.pre.board

\* C24: turn is Black or White in every state of a Game; a new Game starts
\* with Black, and turn changes only to the opposite color, in the next_turn
\* of an accepted move or of a forfeiture
C24_TurnNeverEmpty ==
  /\ [](turn \in Colors)
  /\ [](ev.kind \in {"init", "replay"} => turn = "Black")
  /\ [][turn' # turn =>
          \/ turn' = Not(turn) /\ ev'.kind \in {"accepted", "forfeit"}
          \/ ev'.kind = "replay"]_vars

\* C24 witness: Black's first turn was forfeited and the turn is White's
C24_Witness ==
  /\ phase = "play" /\ turn = "White" /\ ev.kind = "forfeit"
  /\ nacc = 0 /\ ev.pre.turn = "Black"

\* C25: after make_turn accepted p by c, square p and every square of
\* move_outflanks(c, p) hold c, every other square is as before, the turn is
\* the opponent's, the mask is absent and the State is Playing
C25_AcceptedMoveEffect ==
  ev.kind = "accepted" =>
    LET p == into_idx(ev.mov)
        c == ev.color
        outflanks == move_outflanks(ev.pre.board, c, ev.mov)
    IN /\ board[p] = c
       /\ \A i \in outflanks : board[i] = c
       /\ \A i \in Idx \ (outflanks \cup {p}) : board[i] = ev.pre.board[i]
       /\ turn = Not(c)
       /\ current_legal_moves = None
       /\ state = Playing

\* C25 witness: an accepted move of White has changed several squares
C25_Witness ==
  /\ ev.kind = "accepted" /\ ev.color = "White"
  /\ Cardinality({i \in Idx : board[i] # ev.pre.board[i]}) >= 3

\* C26: the think call that follows an error from think carries that error;
\* the first think call of a turn carries none; the think call that follows a
\* rejected move (the loop of play restarted with the mask still cached)
\* carries IllegalMove
C26_ErrorPassedToThink ==
  /\ []((pc = "think" /\ ev.kind = "think_err") => previous_err # "None")
  /\ [][(pc = "match" /\ pc' = "think" /\ ~ev.pre.current_legal_moves.some)
          => previous_err' = "None"]_vars
  /\ [][(pc = "match" /\ pc' = "think" /\ ev.pre.current_legal_moves.some)
          => previous_err' = "IllegalMove"]_vars

\* C27: after a rejected move Game::play does not call Game::legal_moves
C27_NoRecomputeAfterReject ==
  [][(ev.kind = "rejected" /\ Running) => ev'.kind # "legal_moves"]_vars

\* C28: think is called only with the State Playing and a computed mask of
\* the color to move that is not 0
C28_ThinkOnlyWithMoves ==
  (phase \in {"play", "replay"} /\ pc = "think") =>
    /\ state = Playing
    /\ current_legal_moves.some
    /\ current_legal_moves.val # {}
    /\ current_legal_moves.val = Board_legal_moves(board, turn)

\* C28 witness: after Black's forfeiture White, who has a move, is asked
C28_Witness ==
  /\ phase = "play" /\ pc = "think" /\ turn = "White"
  /\ nacc = 0 /\ nrej = 0 /\ Board_legal_moves(board, "Black") = {}

\* C29: every bit of Board::move_outflanks(c, p) is a square that holds a
\* disc of the opponent of c, and is not p
C29_OutflanksAreOpponent ==
  (phase = "board" /\ pc = "outflanked") =>
    \A i \in out.val : board[i] = Not(turn) /\ i # into_idx(mv)

\* C30: after Game::legal_moves the State is Playing iff the color to move
\* has a legal move, TurnForfeited iff it has none and the opponent has one,
\* Draw or Winned iff neither has one
C30_StateAfterLegalMoves ==
  (phase \in {"play", "replay"} /\ ev.kind = "legal_moves") =>
    LET mine == Board_legal_moves(board, turn) # {}
        theirs == Board_legal_moves(board, Not(turn)) # {}
    IN /\ state.tag = "Playing" <=> mine
       /\ state.tag = "TurnForfeited" <=> (~mine /\ theirs)
       /\ state.tag \in {"Draw", "Winned"} <=> (~mine /\ ~theirs)

\* C30 witness: after an accepted move Game::legal_moves found no move for
\* the color to move and one for its opponent
C30_Witness ==
  /\ phase = "play" /\ ev.kind = "legal_moves" /\ nacc = 1
  /\ state.tag = "TurnForfeited"
  /\ Board_legal_moves(board, Not(turn)) # {}

\* C31: an accepted move leaves one Empty square less, 1 + k more discs of
\* the mover and k less of the opponent, for some k >= 1; no step of a game
\* makes an occupied square Empty
C31_DiscCounts ==
  /\ [](ev.kind = "accepted" =>
          LET k == Counter(ev.pre.board, Not(ev.color))
                     - Counter(board, Not(ev.color))
          IN /\ Counter(board, "Empty") = Counter(ev.pre.board, "Empty") - 1
             /\ k >= 1
             /\ Counter(board, ev.color)
                  = Counter(ev.pre.board, ev.color) + 1 + k)
  /\ [][ev'.kind # "replay" =>
          \A i \in Idx : board[i] # "Empty" => board'[i] # "Empty"]_vars

\* C31 witness: an accepted move has taken several discs from the opponent
C31_Witness ==
  /\ ev.kind = "accepted"
  /\ Counter(ev.pre.board, Not(ev.color)) - Counter(board, Not(ev.color)) >= 2
  /\ Counter(board, "Empty") = Counter(ev.pre.board, "Empty") - 1

\* C33: the Game::legal_moves that follows a forfeiture finds a mask that is
\* not 0 and leaves the State Playing
C33_NoTwoForfeits ==
  [][(ev.kind = "forfeit" /\ Running) =>
       /\ ev'.kind = "legal_moves"
       /\ current_legal_moves'.some /\ current_legal_moves'.val # {}
       /\ state' = Playing]_vars

\* C33 witness: Black's first turn was forfeited and Game::legal_moves has
\* found moves for White
C33_Witness ==
  /\ phase = "play" /\ pc = "match" /\ ev.kind = "legal_moves"
  /\ turn = "White" /\ nacc = 0 /\ state = Playing
  /\ current_legal_moves.val # {}

\* C34: for an Empty square p, bit p of Board::legal_moves(c) is set iff
\* Board::move_outflanks(c, p) is not 0
C34_ScansAgree ==
  (phase = "board" /\ pc = "outflanked" /\ board[into_idx(mv)] = "Empty") =>
    (into_idx(mv) \in Board_legal_moves(board, turn)) <=> (out.val # {})

====
